---- MODULE Spec2Model ----
(***************************************************************************)
(* A model of hotspot/share/memory/archiveUtils.cpp: the pointer           *)
(* relocation bitmap (ArchivePtrMarker), the bump allocator (DumpRegion)   *)
(* and the serialization closures (WriteClosure / ReadClosure).            *)
(*                                                                         *)
(* Addresses are byte addresses, NULL is 0.  Memory is kept in 4-byte      *)
(* cells so that both builds are covered: sizeof(intptr_t) is 4 or 8 and   *)
(* is chosen once, in Init.  A word is stored little-endian: its low cell  *)
(* holds the value modulo CellMod, the high cell (8-byte build) the rest.  *)
(* assert(...) is modelled as in a debug build: a failing assertion        *)
(* aborts the VM.  An abort is recorded in `fatal` and ends the run.       *)
(***************************************************************************)
EXTENDS Integers, Sequences, FiniteSets, TLC

VARIABLES
  wordSize,   \* sizeof(intptr_t) of the build: 4 or 8
  mem,        \* memory cell contents, by cell address
  vs,         \* per reservation: the VirtualSpace bound to it
  region,     \* the DumpRegion objects
  marker,     \* the statics of ArchivePtrMarker and the CHeapBitMap
  fatal,      \* the abort that ended the run, if any
  lastOp,     \* the call that produced the current state, with its result
  hist,       \* history of past calls (observations only)
  heap,       \* what the object-heap subsystem answers at dump and load time
  reader      \* the ReadClosure: its cursor and the fields it has read

vars == <<wordSize, mem, vs, region, marker, fatal, lastOp, hist, heap, reader>>

NULL == 0

\* ---------------------------------------------------------------- layout
\* Cell size of the memory model, in bytes.
CellSize == 4
\* The number of values of a 4-byte cell, scaled down from 2^32.
CellMod == 128
\* KlassAlignmentInBytes.
SharedSpaceObjectAlignment == 8
\* MetaspaceShared::reserved_space_alignment(), scaled down.
ReservedSpaceAlignment == 16
\* estimated_archive_size of a debug build (6 * M), scaled down.
EstimatedArchiveSize == 8
\* 1 << narrow oop shift: the object alignment of the heap.
NarrowOopScale == 8
\* The narrow oop base HeapShared decodes against at load time.
RuntimeNarrowOopBase == 32
\* The lowest negative word do_ptr takes for a tag (-100), scaled down.
HitTagFloor == -4
\* MAX_SHARED_DELTA, scaled down.
MAX_SHARED_DELTA == 24

\* The reservations: the archive's primary one and another one.
Reservations == {"shared", "symbol"}
RsBase(rs)   == IF rs = "shared" THEN 16 ELSE 64
RsEnd(rs)    == IF rs = "shared" THEN 48 ELSE 96
shared_rs    == "shared"
\* The address object_delta_uintx measures from.
SharedBaseAddress == RsBase(shared_rs)

RegionNames == {"mc", "rw"}

CellAddrs == {a \in 0..127 : /\ a % CellSize = 0
                             /\ \E rs \in Reservations : RsBase(rs) <= a /\ a < RsEnd(rs)}

\* ---------------------------------------------------------------- bounds
\* Largest byte count passed to allocate.
MaxAlloc == 10
AllocSizes == {0, 1, SharedSpaceObjectAlignment, MaxAlloc}
\* The pattern a never-written cell may hold.
Poison == 85
\* Most words a region holds in the runs that exercise the bitmap.
MaxSlots == 3
\* Word values written to slots: null, an address inside the archive, an
\* address outside it.
PtrValues == {NULL, RsBase("shared") + 8, 100}
\* Word values the archive builder overwrites a slot with.
StoreValues == {NULL, RsBase("shared") + 8}
\* Most words a WriteClosure writes in the runs that exercise the closures.
MaxStream == 3
\* Most data words of a raw region.
MaxRegionWords == 2
\* Most words a WriteClosure writes in the runs that end in a compaction.
MaxWriterStream == 4
\* The scalars, references and raw-region words written.
U4Values == {0, CellMod - 1}
OopValues == {NULL, NarrowOopScale}
RegionWordValues == {NULL, RsBase("shared") + 8}
\* The words of the raw regions written in the runs that end in a compaction:
\* also the bottom of the archive and an address outside it.
WriterWordValues == PtrValues \cup {RsBase("shared")}
\* A word of the 8-byte build whose upper half is not zero and whose lower
\* half is the byte size of a raw region of one word.
WideWord == CellMod + 8
\* What the destination of a reference or pointer read holds at the call.
DestValues == {NULL, RuntimeNarrowOopBase}
\* The pointer windows passed to initialize.
Windows == {<<RsBase("shared"), RsEnd("shared")>>, <<RsBase("shared"), RsBase("shared") + 8>>}
\* The relocatable ranges passed to compact.
RelocRanges == {<<RsBase("shared"), RsEnd("shared")>>}

\* ---------------------------------------------------------------- helpers
align_up(x, a) == ((x + a - 1) \div a) * a
is_aligned(x, a) == x % a = 0

NoFatal == [kind |-> "none", region |-> "none", bytes |-> 0]
Fatal(k, r, n) == [kind |-> k, region |-> r, bytes |-> n]
NoOp == [op |-> "none", region |-> "none", arg |-> 0, p |-> 0, newtop |-> 0, prev |-> 0, ok |-> TRUE]
\* prev: the end of the latest earlier allocation of the region (0: none).
Op(o, r, a, p, nt, ok) ==
  [op |-> o, region |-> r, arg |-> a, p |-> p, newtop |-> nt,
   prev |-> IF r \in DOMAIN hist.allocEnd THEN hist.allocEnd[r] ELSE 0, ok |-> ok]

\* A field of the serialization protocol: its kind, its value (the byte size of
\* a raw region) and the words of a raw region.
Field(k, v, ws) == [kind |-> k, v |-> v, ws |-> ws]

\* count: the fields read; last: the latest of them; replay: every field read
\* so far was of the kind and size of the field written at its place.
\* call: the latest call; was, dest: what the destination of a reference or
\* pointer read held when the call was made and when it ended.
NoReader == [open |-> FALSE, pos |-> NULL, count |-> 0, last |-> Field("none", 0, <<>>),
             replay |-> TRUE, call |-> "none", was |-> NULL, dest |-> NULL]

\* Reading and writing one intptr_t at address a.
WordCells(a) == {c \in CellAddrs : a <= c /\ c < a + wordSize}
load_word(m, a) == IF wordSize = 4 THEN m[a] ELSE m[a] + CellMod * m[a + CellSize]
store_word(m, a, v) ==
  [c \in CellAddrs |-> IF c = a THEN v % CellMod
                       ELSE IF c \in WordCells(a) THEN v \div CellMod
                       ELSE m[c]]

\* ------------------------------------------------------- ArchivePtrMarker
\* CHeapBitMap::resize keeps the bits below the new size.
bitmap_resize(mk, new_size) ==
  [mk EXCEPT !.size = new_size, !.bits = {i \in mk.bits : i < new_size}]

\* _ptrmap->resize((idx + 1) * 2) when idx is out of range
mark_grow(mk, idx) == IF mk.size <= idx THEN bitmap_resize(mk, (idx + 1) * 2) ELSE mk

\* Mutant: the window has no upper end.
in_window_open_ended(mk, loc) == mk.ptr_base <= loc
\* _ptr_base <= ptr_loc && ptr_loc < _ptr_end
in_window(mk, loc) == mk.ptr_base <= loc /\ loc < mk.ptr_end

\* Mutant: mark_pointer does not check _compacted.
mark_fatal_after_compact(mk, m, loc) ==
  IF ~mk.ptrmap_set THEN Fatal("assert_not_initialized", "none", 0)
  ELSE IF in_window(mk, loc)
    THEN IF load_word(m, loc) = mk.ptr_base
           THEN Fatal("assert_bottom_of_archive", "none", 0)
         ELSE IF load_word(m, loc) # NULL /\ loc % wordSize # 0
           THEN Fatal("assert_aligned", "none", 0)
         ELSE NoFatal
  ELSE NoFatal

\* mark_pointer(ptr_loc): the abort it ends in (NoFatal when it returns).
mark_fatal(mk, m, loc) ==
  IF ~mk.ptrmap_set THEN Fatal("assert_not_initialized", "none", 0)
  ELSE IF mk.compacted THEN Fatal("assert_cannot_mark", "none", 0)
  ELSE IF in_window(mk, loc)
    THEN IF load_word(m, loc) = mk.ptr_base
           THEN Fatal("assert_bottom_of_archive", "none", 0)
         ELSE IF load_word(m, loc) # NULL /\ loc % wordSize # 0
           THEN Fatal("assert_aligned", "none", 0)
         ELSE NoFatal
  ELSE NoFatal

\* mark_pointer(ptr_loc): the marker it leaves behind when it returns.
mark_pointer(mk, m, loc) ==
  IF in_window(mk, loc) /\ load_word(m, loc) # NULL
    THEN LET idx == (loc - mk.ptr_base) \div wordSize
             g   == mark_grow(mk, idx)
         IN  [g EXCEPT !.bits = @ \cup {idx}]
    ELSE mk

\* initialize(ptrmap, ptr_base, ptr_end)
initialize(pb, pe) ==
  /\ lastOp' = Op("initialize", "none", pb, 0, 0, ~marker.ptrmap_set)
  /\ IF marker.ptrmap_set
       THEN fatal' = Fatal("assert_initialize_once", "none", 0) /\ UNCHANGED marker
       ELSE /\ marker' = [ptrmap_set |-> TRUE, size |-> EstimatedArchiveSize \div wordSize,
                          bits |-> {}, ptr_base |-> pb, ptr_end |-> pe,
                          compacted |-> FALSE]
            /\ UNCHANGED fatal
  /\ UNCHANGED <<wordSize, heap, reader, mem, vs, region, hist>>

\* A direct call of mark_pointer(ptr_loc).
mark_call(loc) ==
  LET f == mark_fatal(marker, mem, loc)
  IN  /\ lastOp' = Op("mark", "none", loc, 0, 0, f = NoFatal)
      /\ fatal' = f
      /\ marker' = IF f = NoFatal THEN mark_pointer(marker, mem, loc) ELSE marker
      /\ UNCHANGED <<wordSize, heap, reader, mem, vs, region, hist>>

\* clear_pointer(ptr_loc): the abort it ends in (NoFatal when it returns).
clear_fatal(mk, loc) ==
  IF ~mk.ptrmap_set THEN Fatal("assert_not_initialized", "none", 0)
  ELSE IF mk.compacted THEN Fatal("assert_cannot_clear", "none", 0)
  ELSE IF ~in_window(mk, loc) THEN Fatal("assert_must_be", "none", 0)
  ELSE IF loc % wordSize # 0 THEN Fatal("assert_aligned", "none", 0)
  ELSE IF ~((loc - mk.ptr_base) \div wordSize < mk.size)
    THEN Fatal("assert_not_marked", "none", 0)
  ELSE NoFatal

\* clear_pointer(ptr_loc)
clear_pointer(loc) ==
  LET f == clear_fatal(marker, loc)
  IN  /\ lastOp' = Op("clear", "none", loc, 0, 0, f = NoFatal)
      /\ fatal' = f
      /\ marker' = IF f = NoFatal
                     THEN [marker EXCEPT !.bits = @ \ {(loc - marker.ptr_base) \div wordSize}]
                     ELSE marker
      /\ UNCHANGED <<wordSize, heap, reader, mem, vs, region, hist>>

\* Mutant: do_bit keeps the bit of a slot whose value is null.
do_bit_keeps_always(value) == TRUE
\* ArchivePtrBitmapCleaner::do_bit: the bit stays set iff the value is non-null.
do_bit_keeps(value) == value # NULL

\* do_bit's assertion on a non-null value.
do_bit_in_range(value, rb, re) == rb <= value /\ value < re

\* The value do_bit reads for bit `offset`.
do_bit_value(mk, m, offset) == load_word(m, mk.ptr_base + offset * wordSize)

\* The set bits whose do_bit call fails its assertion.
cleaner_bad(mk, m, rb, re) ==
  {i \in mk.bits : /\ do_bit_value(mk, m, i) # NULL
                   /\ ~do_bit_in_range(do_bit_value(mk, m, i), rb, re)}

\* The bits left set when iterate has passed every bit below `upto`.
cleaner_bits(mk, m, upto) ==
  {i \in mk.bits : i >= upto \/ do_bit_keeps(do_bit_value(mk, m, i))}

MaxOf(S) == CHOOSE i \in S : \A j \in S : j <= i
MinOf(S) == CHOOSE i \in S : \A j \in S : i <= j

\* Mutant: the maximum is raised by every bit visited, null or not.
max_non_null_offset_any(mk, m) == IF mk.bits = {} THEN 0 ELSE MaxOf(mk.bits)
\* _max_non_null_offset after iterate: starts at 0, raised by each non-null bit.
max_non_null_offset(mk, m) ==
  LET S == {i \in mk.bits : do_bit_value(mk, m, i) # NULL}
  IN  IF S = {} THEN 0 ELSE MaxOf(S)

\* Mutant: the bitmap is resized to max_non_null_offset.
compact_size_short(max) == max
\* _ptrmap->resize(max_non_null_offset + 1)
compact_size(max) == max + 1

\* compact(relocatable_base, relocatable_end)
compact(rb, re) ==
  /\ IF marker.compacted
       THEN /\ fatal' = Fatal("assert_cannot_compact_again", "none", 0)
            /\ lastOp' = Op("compact", "none", rb, 0, 0, FALSE)
            /\ UNCHANGED marker
     ELSE IF ~marker.ptrmap_set
       THEN /\ fatal' = Fatal("null_ptrmap", "none", 0)
            /\ lastOp' = Op("compact", "none", rb, 0, 0, FALSE)
            /\ UNCHANGED marker
     ELSE IF cleaner_bad(marker, mem, rb, re) # {}
       THEN /\ fatal' = Fatal("assert_arbitrary_location", "none", 0)
            /\ lastOp' = Op("compact", "none", rb, 0, 0, FALSE)
            /\ marker' = [marker EXCEPT !.bits =
                            cleaner_bits(marker, mem, MinOf(cleaner_bad(marker, mem, rb, re)))]
       ELSE /\ UNCHANGED fatal
            /\ lastOp' = Op("compact", "none", rb, 0, 0, TRUE)
            /\ marker' = [bitmap_resize(
                             [marker EXCEPT !.bits = cleaner_bits(marker, mem, marker.size)],
                             compact_size(max_non_null_offset(marker, mem)))
                          EXCEPT !.compacted = TRUE]
  /\ hist' = IF marker.ptrmap_set /\ ~marker.compacted
               THEN [hist EXCEPT !.preBits = marker.bits, !.preSize = marker.size]
               ELSE hist
  /\ UNCHANGED <<wordSize, heap, reader, mem, vs, region>>

\* ------------------------------------------------------------ DumpRegion
is_packed(rg) == rg.is_packed
\* is_allocatable(): initialized and not packed.
is_allocatable(rg) == ~is_packed(rg) /\ rg.base # NULL

object_delta_uintx(p) == p - SharedBaseAddress

\* Mutant: the shortfall against end is reported instead of the bytes needed.
out_of_space_bytes_shortfall(rg, newtop) == newtop - rg.end
\* The byte count handed to MetaspaceShared::report_out_of_space.
out_of_space_bytes(rg, newtop) == newtop - rg.top

\* Mutant: the delta check is made before the capacity check.
expand_fatal_delta_first(r, rg, newtop) ==
  IF ~is_allocatable(rg) THEN Fatal("assert_allocatable", r, 0)
  ELSE IF newtop < rg.top THEN Fatal("assert_grow_backwards", r, 0)
  ELSE IF rg.rs = shared_rs /\ object_delta_uintx(newtop) > MAX_SHARED_DELTA
    THEN Fatal("out_of_memory_cds", r, 0)
  ELSE IF newtop > rg.end
    THEN Fatal("out_of_space", r, out_of_space_bytes(rg, newtop))
  ELSE NoFatal

\* Mutant: the assertion that the region is allocatable is missing.
expand_fatal_no_assert(r, rg, newtop) ==
  IF newtop < rg.top THEN Fatal("assert_grow_backwards", r, 0)
  ELSE IF newtop > rg.end
    THEN Fatal("out_of_space", r, out_of_space_bytes(rg, newtop))
  ELSE IF rg.rs = shared_rs /\ object_delta_uintx(newtop) > MAX_SHARED_DELTA
    THEN Fatal("out_of_memory_cds", r, 0)
  ELSE NoFatal

\* Mutant: the delta check is missing.
expand_fatal_no_delta(r, rg, newtop) ==
  IF ~is_allocatable(rg) THEN Fatal("assert_allocatable", r, 0)
  ELSE IF newtop < rg.top THEN Fatal("assert_grow_backwards", r, 0)
  ELSE IF newtop > rg.end
    THEN Fatal("out_of_space", r, out_of_space_bytes(rg, newtop))
  ELSE NoFatal

\* Mutant: the capacity check is missing.
expand_fatal_no_capacity(r, rg, newtop) ==
  IF ~is_allocatable(rg) THEN Fatal("assert_allocatable", r, 0)
  ELSE IF newtop < rg.top THEN Fatal("assert_grow_backwards", r, 0)
  ELSE IF rg.rs = shared_rs /\ object_delta_uintx(newtop) > MAX_SHARED_DELTA
    THEN Fatal("out_of_memory_cds", r, 0)
  ELSE NoFatal

\* expand_top_to(newtop) on the region named r with fields rg: the abort it
\* ends in (NoFatal when it returns).
expand_fatal(r, rg, newtop) ==
  IF ~is_allocatable(rg) THEN Fatal("assert_allocatable", r, 0)
  ELSE IF newtop < rg.top THEN Fatal("assert_grow_backwards", r, 0)
  ELSE IF newtop > rg.end
    THEN Fatal("out_of_space", r, out_of_space_bytes(rg, newtop))
  ELSE IF rg.rs = shared_rs /\ object_delta_uintx(newtop) > MAX_SHARED_DELTA
    THEN Fatal("out_of_memory_cds", r, 0)
  ELSE NoFatal

\* MetaspaceShared::commit_to(_rs, _vs, newtop)
commit_to(v, rs, newtop) ==
  [v EXCEPT ![rs].high = IF newtop > @ THEN newtop ELSE @]

\* Mutant: the allocation starts at top as it is.
allocate_p_unaligned(top) == top
\* Mutant: the size is rounded down instead of up.
allocate_newtop_align_down(p, num_bytes) ==
  p + (num_bytes \div SharedSpaceObjectAlignment) * SharedSpaceObjectAlignment
\* char* p = (char*)align_up(_top, SharedSpaceObjectAlignment)
allocate_p(top) == align_up(top, SharedSpaceObjectAlignment)
\* char* newtop = p + align_up(num_bytes, SharedSpaceObjectAlignment)
allocate_newtop(p, num_bytes) == p + align_up(num_bytes, SharedSpaceObjectAlignment)
\* memset(p, 0, len)
memset_zero(m, p, len) ==
  [c \in CellAddrs |-> IF p <= c /\ c < p + len THEN 0 ELSE m[c]]

Max(a, b) == IF a > b THEN a ELSE b

\* DumpRegion::init(rs, vs)
init(r, rs) ==
  /\ lastOp' = Op("init", r, 0, 0, 0, ~vs[rs].initialized)
  /\ IF vs[rs].initialized
       THEN /\ fatal' = Fatal("assert_vs_initialized", r, 0)
            /\ region' = [region EXCEPT ![r].rs = rs]
            /\ UNCHANGED <<vs>>
       ELSE /\ vs' = [vs EXCEPT ![rs] = [initialized |-> TRUE, high |-> RsBase(rs)]]
            /\ region' = [region EXCEPT ![r].rs = rs, ![r].base = RsBase(rs),
                                        ![r].top = RsBase(rs), ![r].end = RsEnd(rs)]
            /\ UNCHANGED fatal
  /\ UNCHANGED <<wordSize, heap, reader, mem, marker, hist>>

\* DumpRegion::allocate(num_bytes)
allocate(r, num_bytes) ==
  LET p      == allocate_p(region[r].top)
      newtop == allocate_newtop(p, num_bytes)
      f      == expand_fatal(r, region[r], newtop)
  IN  /\ lastOp' = Op("allocate", r, num_bytes, p, newtop, f = NoFatal)
      /\ fatal' = f
      /\ IF f # NoFatal
           THEN UNCHANGED <<vs, region, mem, hist>>
           ELSE /\ vs' = commit_to(vs, region[r].rs, newtop)
                /\ region' = [region EXCEPT ![r].top = newtop]
                /\ mem' = memset_zero(mem, p, newtop - p)
                /\ hist' = [hist EXCEPT !.allocEnd[r] = Max(@, p + num_bytes)]
      /\ UNCHANGED <<wordSize, heap, reader, marker>>

\* The part of the state a sequence of append_intptr_t calls works on.
St == [region |-> region, mem |-> mem, vs |-> vs, marker |-> marker, fatal |-> fatal]

\* DumpRegion::append_intptr_t(n, need_to_mark) applied to st; nothing
\* happens once the VM has aborted.
append_word(st, r, n, need_to_mark) ==
  LET rg     == st.region[r]
      p      == rg.top
      newtop == p + wordSize
      f      == IF ~is_aligned(p, wordSize) THEN Fatal("assert_bad_alignment", r, 0)
                ELSE expand_fatal(r, rg, newtop)
      m2     == store_word(st.mem, p, n)
      g      == IF need_to_mark THEN mark_fatal(st.marker, m2, p) ELSE NoFatal
  IN  IF st.fatal # NoFatal THEN st
      ELSE IF f # NoFatal THEN [st EXCEPT !.fatal = f]
      ELSE [region |-> [st.region EXCEPT ![r].top = newtop],
            mem    |-> m2,
            vs     |-> commit_to(st.vs, rg.rs, newtop),
            marker |-> IF need_to_mark /\ g = NoFatal
                         THEN mark_pointer(st.marker, m2, p) ELSE st.marker,
            fatal  |-> g]

\* The state st becomes the next state.
Becomes(st) ==
  /\ region' = st.region /\ mem' = st.mem /\ vs' = st.vs
  /\ marker' = st.marker /\ fatal' = st.fatal

\* A direct call of append_intptr_t(n, need_to_mark).
append_intptr_t(r, n, need_to_mark) ==
  LET st == append_word(St, r, n, need_to_mark)
  IN  /\ Becomes(st)
      /\ lastOp' = Op("append", r, n, region[r].top, region[r].top + wordSize,
                      st.fatal = NoFatal)
      /\ UNCHANGED <<wordSize, heap, reader, hist>>

\* Mutant: pack leaves end at top as it is.
pack_end_unaligned(top) == top
\* _end = (char*)align_up(_top, MetaspaceShared::reserved_space_alignment())
pack_end(top) == align_up(top, ReservedSpaceAlignment)

\* DumpRegion::pack(next); next = "none" is a NULL argument.
pack(r, next) ==
  LET e == pack_end(region[r].top)
  IN  /\ lastOp' = Op("pack", r, 0, 0, e, ~is_packed(region[r]))
      /\ IF is_packed(region[r])
           THEN /\ fatal' = Fatal("assert_sanity", r, 0)
                /\ UNCHANGED region
           ELSE /\ UNCHANGED fatal
                /\ region' =
                     [x \in RegionNames |->
                        IF x = r THEN [region[r] EXCEPT !.end = e, !.is_packed = TRUE]
                        ELSE IF x = next
                          THEN [region[x] EXCEPT !.rs = region[r].rs, !.base = e,
                                                 !.top = e, !.end = RsEnd(region[r].rs)]
                        ELSE region[x]]
      /\ UNCHANGED <<wordSize, heap, reader, mem, vs, marker, hist>>

\* ------------------------------------------- object-heap subsystem (external)
\* CompressedOops::encode_not_null(o): (o - base) >> shift, with base 0.
encode_not_null(o) == o \div NarrowOopScale
\* HeapShared::decode_from_archive(v): _narrow_oop_base + (v << shift), with
\* the base of the heap region as mapped at load time.
decode_from_archive(v) == RuntimeNarrowOopBase + v * NarrowOopScale
\* CompressedOops::narrow_oop_cast(w): the low 32 bits of the word.
narrow_oop_cast(w) == w % CellMod
\* CompressedOops::is_null(narrowOop)
is_null(v) == v = 0

\* ----------------------------------------------------------- WriteClosure
\* The region the WriteClosure appends to (_dump_region).
dump_region == "mc"

\* WriteClosure::do_u4 / do_bool / do_tag: one unmarked word.
write_scalar(st, v) == append_word(st, dump_region, v, FALSE)

\* Mutant: do_oop asks for the word of a non-null reference to be marked.
write_oop_marked(st, o) ==
  IF o = NULL THEN append_word(st, dump_region, 0, FALSE)
  ELSE IF st.fatal = NoFatal /\ ~heap.dump_allowed
    THEN [st EXCEPT !.fatal = Fatal("assert_archiving_not_allowed", "none", 0)]
  ELSE append_word(st, dump_region, encode_not_null(o), TRUE)

\* WriteClosure::do_oop(o): both branches call append_intptr_t(n) and leave
\* need_to_mark at its default (off), where do_region passes true.
write_oop(st, o) ==
  IF o = NULL THEN append_word(st, dump_region, 0, FALSE)
  ELSE IF st.fatal = NoFatal /\ ~heap.dump_allowed
    THEN [st EXCEPT !.fatal = Fatal("assert_archiving_not_allowed", "none", 0)]
  ELSE append_word(st, dump_region, encode_not_null(o), FALSE)

\* Mutant: the loop appends the words without asking for them to be marked.
RECURSIVE write_words_unmarked(_, _)
write_words_unmarked(st, ws) ==
  IF ws = <<>> THEN st
  ELSE write_words_unmarked(append_word(st, dump_region, Head(ws), FALSE), Tail(ws))

\* The loop of WriteClosure::do_region: each word appended and marked.
RECURSIVE write_words(_, _)
write_words(st, ws) ==
  IF ws = <<>> THEN st
  ELSE write_words(append_word(st, dump_region, Head(ws), TRUE), Tail(ws))

\* WriteClosure::do_region(start, size), ws the size / wordSize words at start.
write_region(st, ws) == write_words(write_scalar(st, Len(ws) * wordSize), ws)

\* The words a field takes in the stream.
FieldWords(f) == IF f.kind = "region" THEN 1 + Len(f.ws) ELSE 1

\* A call of the WriteClosure for field f, which leaves the state st.
write_call(f, st) ==
  /\ Becomes(st)
  /\ hist' = IF st.fatal = NoFatal THEN [hist EXCEPT !.wr = Append(@, f)] ELSE hist
  /\ lastOp' = Op("write", dump_region, 0, region[dump_region].top,
                  st.region[dump_region].top, st.fatal = NoFatal)
  /\ UNCHANGED <<wordSize, heap, reader>>

\* ------------------------------------------------------------ ReadClosure
\* The k-th word from the cursor: what the k-th nextPtr() from here returns.
next_word(k) == load_word(mem, reader.pos + k * wordSize)

\* (u4)(uintx(obj))
to_u4(obj) == obj % CellMod
\* (bool)(uintx(obj))
to_bool(obj) == IF obj # 0 THEN 1 ELSE 0
\* (int)(intptr_t)nextPtr()
to_int(obj) == obj % CellMod

\* Mutant: the test of the mapping is inverted.
read_oop_value_inverted(w) ==
  IF is_null(narrow_oop_cast(w)) \/ heap.mapped THEN NULL
  ELSE decode_from_archive(narrow_oop_cast(w))
\* ReadClosure::do_oop: the value stored into *p.
read_oop_value(w) ==
  IF is_null(narrow_oop_cast(w)) \/ ~heap.mapped THEN NULL
  ELSE decode_from_archive(narrow_oop_cast(w))

\* Mutant: the policy is asserted before the word and the mapping are tested.
read_oop_fatal_policy_first(w) ==
  IF ~heap.load_allowed THEN Fatal("assert_archived_not_allowed", "none", 0)
  ELSE NoFatal
\* ReadClosure::do_oop: the abort it ends in (NoFatal when it returns).
read_oop_fatal(w) ==
  IF is_null(narrow_oop_cast(w)) \/ ~heap.mapped THEN NoFatal
  ELSE IF ~heap.load_allowed THEN Fatal("assert_archived_not_allowed", "none", 0)
  ELSE IF ~heap.mapped THEN Fatal("assert_heap_not_mapped", "none", 0)
  ELSE NoFatal

\* Field f, read as the `count`-th field, is of the kind and size of the field
\* written at that place.
SameShape(f, count) ==
  /\ count <= Len(hist.wr)
  /\ f.kind = hist.wr[count].kind
  /\ f.kind = "region" => f.v = hist.wr[count].v

\* The ReadClosure has consumed n words and stored field f, into a
\* destination that held d if the field is a reference or a pointer.
read_done_into(d, n, f) ==
  /\ reader' = [reader EXCEPT !.pos = @ + n * wordSize, !.count = @ + 1, !.last = f,
                              !.replay = @ /\ SameShape(f, reader.count + 1),
                              !.call = f.kind, !.was = d,
                              !.dest = IF f.kind \in {"oop", "ptr"} THEN f.v ELSE NULL]
  /\ lastOp' = Op("read", "none", f.v, reader.pos, reader.pos + n * wordSize, TRUE)
  /\ UNCHANGED <<wordSize, heap, mem, vs, region, marker, fatal, hist>>

\* The ReadClosure has consumed n words and stored a scalar or a raw region.
read_done(n, f) == read_done_into(NULL, n, f)

\* The call `call` of the ReadClosure has consumed n words and aborted,
\* leaving its destination at d.
read_abort_in(call, d, n, f) ==
  /\ reader' = [reader EXCEPT !.pos = @ + n * wordSize, !.call = call, !.was = d,
                              !.dest = d]
  /\ fatal' = f
  /\ lastOp' = Op("read", "none", f.bytes, reader.pos, reader.pos + n * wordSize, FALSE)
  /\ UNCHANGED <<wordSize, heap, mem, vs, region, marker, hist>>

\* The word obj as the intptr_t it is: negative from the top bit on.
to_intptr(obj) ==
  LET full == IF wordSize = 4 THEN CellMod ELSE CellMod * CellMod
  IN  IF 2 * obj >= full THEN obj - full ELSE obj

\* Mutant: do_ptr does not look at what the destination holds.
read_ptr_unchecked(d) ==
  IF ~(to_intptr(next_word(0)) >= 0 \/ to_intptr(next_word(0)) < HitTagFloor)
    THEN read_abort_in("ptr", d, 1, Fatal("assert_hit_tag", "none", 0))
    ELSE read_done_into(d, 1, Field("ptr", next_word(0), <<>>))
\* ReadClosure::do_ptr(p), *p = d at the call.
read_ptr(d) ==
  IF d # NULL
    THEN read_abort_in("ptr", d, 0, Fatal("assert_previously_initialized", "none", 0))
  ELSE IF ~(to_intptr(next_word(0)) >= 0 \/ to_intptr(next_word(0)) < HitTagFloor)
    THEN read_abort_in("ptr", d, 1, Fatal("assert_hit_tag", "none", 0))
  ELSE read_done_into(d, 1, Field("ptr", next_word(0), <<>>))

\* ReadClosure::do_u4(p)
read_u4 == read_done(1, Field("u4", to_u4(next_word(0)), <<>>))
\* ReadClosure::do_bool(p)
read_bool == read_done(1, Field("bool", to_bool(next_word(0)), <<>>))
\* ReadClosure::do_oop(p), *p = d at the call.
read_oop(d) ==
  IF read_oop_fatal(next_word(0)) # NoFatal
    THEN read_abort_in("oop", d, 1, read_oop_fatal(next_word(0)))
    ELSE read_done_into(d, 1, Field("oop", read_oop_value(next_word(0)), <<>>))
\* Mutant: do_region reads the tag without comparing it.
read_region_unchecked(size) ==
  read_done(1 + size \div wordSize,
            Field("region", size, [i \in 1..(size \div wordSize) |-> next_word(i)]))
\* ReadClosure::do_region(start, size); do_tag's abort carries the tag expected.
read_region(size) ==
  IF to_int(next_word(0)) # to_int(size)
    THEN read_abort_in("region", NULL, 1, Fatal("assert_tag_mismatch", "none", size))
    ELSE read_done(1 + size \div wordSize,
                   Field("region", size, [i \in 1..(size \div wordSize) |-> next_word(i)]))

\* The archive is loaded: the heap subsystem of the loading VM answers h, and
\* a ReadClosure is set up over the words of dump_region.
reader_open(h) ==
  /\ reader' = [NoReader EXCEPT !.open = TRUE, !.pos = region[dump_region].base]
  /\ heap' = [heap EXCEPT !.load_allowed = h.load_allowed, !.mapped = h.mapped]
  /\ lastOp' = Op("reader_open", "none", 0, 0, 0, TRUE)
  /\ UNCHANGED <<wordSize, mem, vs, region, marker, fatal, hist>>

\* ----------------------------------------------------------------- Init
FreshRegion == [base |-> NULL, top |-> NULL, end |-> NULL, is_packed |-> FALSE, rs |-> "none"]
NoMarker == [ptrmap_set |-> FALSE, size |-> 0, bits |-> {}, ptr_base |-> NULL,
             ptr_end |-> NULL, compacted |-> FALSE]
\* preBits, preSize: the bitmap as the latest compact call found it.
\* wr: the fields the WriteClosure has written.
NoHist == [allocEnd |-> [r \in RegionNames |-> 0], preBits |-> {}, preSize |-> 0,
           wr |-> <<>>]

\* The state after construction; the reserved memory reads as `fill`.
InitState(fill) ==
  /\ wordSize \in {4, 8}
  /\ mem = [c \in CellAddrs |-> fill]
  /\ vs = [rs \in Reservations |-> [initialized |-> FALSE, high |-> NULL]]
  /\ region = [r \in RegionNames |-> FreshRegion]
  /\ marker = NoMarker
  /\ fatal = NoFatal
  /\ lastOp = NoOp
  /\ hist = NoHist
  /\ reader = NoReader

\* The state after construction with a heap subsystem that allows everything.
InitWith(fill) ==
  /\ heap = [dump_allowed |-> TRUE, load_allowed |-> TRUE, mapped |-> TRUE]
  /\ InitState(fill)

\* What the heap subsystem of the loading VM can answer: a mapped heap region
\* implies that archiving is allowed.
LoadAnswers == {h \in [load_allowed : BOOLEAN, mapped : BOOLEAN] : h.mapped => h.load_allowed}
\* The state after construction, archiving allowed in the dumping VM or not.
InitAnyHeap ==
  /\ \E d \in BOOLEAN : heap = [dump_allowed |-> d, load_allowed |-> FALSE, mapped |-> FALSE]
  /\ InitState(0)

\* Reserved memory is fresh from the operating system, or recycled.
Init == InitWith(0)
InitAnyMemory == InitWith(0) \/ InitWith(Poison)

Running == fatal = NoFatal

\* A region object as constructed: never initialized, seeded or packed.
IsFresh(r) == region[r] = FreshRegion

\* The region objects of a dump: mc is initialized on a reservation (the
\* archive's primary one or another one), rw is seeded by mc.pack(&rw).
InitArgs == {<<"mc", "shared">>, <<"mc", "symbol">>}
PackArgs == {<<"mc", "rw">>, <<"mc", "none">>, <<"rw", "none">>}

InitRegionOn(A) == Running /\ \E a \in A : IsFresh(a[1]) /\ init(a[1], a[2])
InitRegion == InitRegionOn(InitArgs)
InitShared == InitRegionOn({<<"mc", "shared">>})
Allocate == Running /\ \E r \in RegionNames, n \in AllocSizes : allocate(r, n)
AppendWord(V) == Running /\ \E r \in RegionNames, n \in V, b \in BOOLEAN :
                   append_intptr_t(r, n, b)
Pack == Running /\ \E a \in PackArgs :
          /\ a[2] # "none" => IsFresh(a[2]) /\ region[a[1]].rs # "none"
          /\ pack(a[1], a[2])

\* The words a region holds: word-aligned addresses in [base, top).
WordsOf(r) == {a \in CellAddrs : /\ a % wordSize = 0
                                 /\ region[r].base <= a /\ a < region[r].top}
AllWords == UNION {WordsOf(r) : r \in RegionNames}

\* The archive builder overwrites a word it has allocated.
store_slot(loc, v) ==
  /\ mem' = store_word(mem, loc, v)
  /\ lastOp' = Op("store", "none", 0, 0, 0, TRUE)
  /\ UNCHANGED <<wordSize, heap, reader, vs, region, marker, fatal, hist>>

InitializeOn(W) == Running /\ \E w \in W : initialize(w[1], w[2])
Initialize == InitializeOn(Windows)
\* initialize over the primary reservation.
InitializeShared == InitializeOn({<<RsBase("shared"), RsEnd("shared")>>})
MarkPointer == Running /\ \E loc \in AllWords : mark_call(loc)
\* clear_pointer on a word of a region or on the word at a region's top.
ClearPointer == Running /\ \E loc \in AllWords \cup {region[r].top : r \in RegionNames} :
                  clear_pointer(loc)
Compact == Running /\ \E rr \in RelocRanges : compact(rr[1], rr[2])
\* compact at dump time, before the archive is read.
CompactDump == ~reader.open /\ Compact
StoreSlot == Running /\ \E loc \in AllWords, v \in StoreValues : store_slot(loc, v)
\* append_word while the region holds fewer than MaxSlots words.
AppendSlot == Running /\ \E r \in RegionNames, n \in PtrValues, b \in BOOLEAN :
                /\ region[r].top - region[r].base < MaxSlots * wordSize
                /\ append_intptr_t(r, n, b)

\* append_word without marking.
AppendUnmarked == Running /\ \E r \in RegionNames, n \in PtrValues :
                    /\ region[r].top - region[r].base < MaxSlots * wordSize
                    /\ append_intptr_t(r, n, FALSE)
\* A dump in which mark_pointer is never called: words are appended unmarked,
\* overwritten and cleared.
NextClear == InitShared \/ AppendUnmarked \/ Initialize \/ StoreSlot \/ ClearPointer
SpecClear == Init /\ [][NextClear]_vars

NextPtrmap == InitShared \/ AppendSlot \/ Initialize \/ MarkPointer \/ ClearPointer
              \/ Compact \/ StoreSlot
SpecPtrmap == Init /\ [][NextPtrmap]_vars

RegionWordSeqs == UNION {[1..n -> RegionWordValues] : n \in 0..MaxRegionWords}
\* The WriteClosure writes field f while the stream stays within MaxStream
\* words and no ReadClosure has been set up.
WritingUpTo(f, n) ==
  /\ Running /\ ~reader.open
  /\ (region[dump_region].top - region[dump_region].base) \div wordSize
       + FieldWords(f) <= n
Writing(f) == WritingUpTo(f, MaxStream)
WriteU4 == \E v \in U4Values :
             Writing(Field("u4", v, <<>>))
             /\ write_call(Field("u4", v, <<>>), write_scalar(St, v))
WriteBool == \E v \in {0, 1} :
               Writing(Field("bool", v, <<>>))
               /\ write_call(Field("bool", v, <<>>), write_scalar(St, v))
WriteOop == \E o \in OopValues :
              Writing(Field("oop", o, <<>>))
              /\ write_call(Field("oop", o, <<>>), write_oop(St, o))
WriteRegion == \E ws \in RegionWordSeqs :
                 Writing(Field("region", Len(ws) * wordSize, ws))
                 /\ write_call(Field("region", Len(ws) * wordSize, ws), write_region(St, ws))

\* The ReadClosure reads n more words that lie below the region's top.
Reading(n) ==
  /\ Running /\ reader.open
  /\ reader.pos + n * wordSize <= region[dump_region].top
ReaderOpen == /\ Running /\ ~reader.open /\ region[dump_region].base # NULL
              /\ \E h \in LoadAnswers : reader_open(h)
ReadU4 == Reading(1) /\ read_u4
ReadBool == Reading(1) /\ read_bool
\* do_oop into a destination that holds null.
ReadOop == Reading(1) /\ read_oop(NULL)
ReadRegion == \E n \in 0..MaxRegionWords :
                /\ Reading(1)
                /\ to_int(next_word(0)) = n * wordSize => Reading(1 + n)
                /\ read_region(n * wordSize)

\* The replay: the ReadClosure is driven by the traversal that drove the
\* WriteClosure, so each read is of the kind, and a raw region of the size,
\* of the field written at its place.
InStep(k) == /\ reader.count < Len(hist.wr)
             /\ hist.wr[reader.count + 1].kind = k
ReplayU4 == InStep("u4") /\ ReadU4
ReplayBool == InStep("bool") /\ ReadBool
ReplayOop == InStep("oop") /\ ReadOop
ReplayRegion == /\ InStep("region")
                /\ Reading(1 + hist.wr[reader.count + 1].v \div wordSize)
                /\ read_region(hist.wr[reader.count + 1].v)

NextSerial == InitShared \/ InitializeShared \/ WriteU4 \/ WriteBool \/ WriteOop
              \/ WriteRegion \/ CompactDump \/ ReaderOpen
              \/ ReplayU4 \/ ReplayBool \/ ReplayOop \/ ReplayRegion
SpecSerial == InitAnyHeap /\ [][NextSerial]_vars

\* The dump: fields are written through the WriteClosure, the bitmap is set up
\* over the whole reservation or over its first words, and compacted.
WriterU4 == \E v \in U4Values :
              WritingUpTo(Field("u4", v, <<>>), MaxWriterStream)
              /\ write_call(Field("u4", v, <<>>), write_scalar(St, v))
WriterOop == \E o \in OopValues :
               WritingUpTo(Field("oop", o, <<>>), MaxWriterStream)
               /\ write_call(Field("oop", o, <<>>), write_oop(St, o))
WriterWordSeqs == UNION {[1..n -> WriterWordValues] : n \in 0..MaxRegionWords}
WriterRegion == \E ws \in WriterWordSeqs :
                  WritingUpTo(Field("region", Len(ws) * wordSize, ws), MaxWriterStream)
                  /\ write_call(Field("region", Len(ws) * wordSize, ws), write_region(St, ws))
NextWriter == InitShared \/ Initialize \/ WriterU4 \/ WriterOop \/ WriterRegion \/ Compact
SpecWriter == InitAnyHeap /\ [][NextWriter]_vars

\* The load, with raw regions whose words fill the whole width of a word: the
\* ReadClosure reads scalars and raw regions at the cursor, in step with the
\* fields written or not.
WideWordValues == RegionWordValues \cup (IF wordSize = 8 THEN {WideWord} ELSE {})
WideWordSeqs == UNION {[1..n -> WideWordValues] : n \in 0..MaxRegionWords}
WriteWideRegion == \E ws \in WideWordSeqs :
                     Writing(Field("region", Len(ws) * wordSize, ws))
                     /\ write_call(Field("region", Len(ws) * wordSize, ws), write_region(St, ws))
\* do_oop and do_ptr into a destination that holds null or not.
ReadOopInto == Reading(1) /\ \E d \in DestValues : read_oop(d)
ReadPtrInto == Reading(1) /\ \E d \in DestValues : read_ptr(d)
\* The loading VM answers anything.
ReaderOpenAny == /\ Running /\ ~reader.open /\ region[dump_region].base # NULL
                 /\ \E h \in [load_allowed : BOOLEAN, mapped : BOOLEAN] : reader_open(h)
NextReader == InitShared \/ InitializeShared \/ WriteU4 \/ WriteOop \/ WriteWideRegion
              \/ ReaderOpenAny \/ ReadU4 \/ ReadRegion \/ ReadOopInto \/ ReadPtrInto
SpecReader == Init /\ [][NextReader]_vars

NextRegion == InitRegion \/ Allocate \/ AppendWord({1}) \/ Pack
SpecRegion == InitAnyMemory /\ [][NextRegion]_vars

\* Every operation, from every initial state.  The specifications above
\* are the parts of it the claims are checked under, each with the bounds
\* of the component it exercises.
Next == NextRegion \/ NextPtrmap \/ NextClear \/ NextSerial \/ NextWriter \/ NextReader
Spec == (InitAnyMemory \/ InitAnyHeap) /\ [][Next]_vars

\* ------------------------------------------------------ closure claims
\* The ReadClosure has just read a field, and it and every field before it
\* were read as the kind and size the WriteClosure wrote at that place.
ReplayedField == lastOp.op = "read" /\ lastOp.ok /\ reader.count >= 1 /\ reader.replay
\* The field written at the place of the field just read.
Written == hist.wr[reader.count]

\* C1 as claimed: a replayed scalar has the written value, a replayed raw
\* region the written words, and a replayed reference is null exactly when
\* the written reference was null.
C1_RoundTrip ==
  ReplayedField =>
    /\ reader.last.kind \in {"u4", "bool"} => reader.last.v = Written.v
    /\ reader.last.kind = "region" => reader.last.ws = Written.ws
    /\ reader.last.kind = "oop" => (reader.last.v = NULL <=> Written.v = NULL)

\* C1 amended: as claimed for scalars and raw regions; a replayed reference is
\* null exactly when the written one was null if the heap region is mapped at
\* load time, and null in any case if it is not mapped.
C1_RoundTripWhenMapped ==
  ReplayedField =>
    /\ reader.last.kind \in {"u4", "bool"} => reader.last.v = Written.v
    /\ reader.last.kind = "region" => reader.last.ws = Written.ws
    /\ (reader.last.kind = "oop" /\ heap.mapped)
         => (reader.last.v = NULL <=> Written.v = NULL)
    /\ (reader.last.kind = "oop" /\ ~heap.mapped) => reader.last.v = NULL

\* C1 witness: a raw region with data words and a non-null reference were
\* written, and the replay has read all fields, the reference as non-null.
C1_Witness ==
  /\ ReplayedField /\ reader.count = Len(hist.wr)
  /\ reader.last.kind = "oop" /\ reader.last.v # NULL
  /\ \E i \in 1..Len(hist.wr) : hist.wr[i].kind = "region" /\ hist.wr[i].ws # <<>>

\* ------------------------------------------------------- bitmap claims
CompactReturned == lastOp.op = "compact" /\ lastOp.ok
\* The value of the slot of bit i.
SlotValue(i) == load_word(mem, marker.ptr_base + i * wordSize)

\* C2: after compact a bit is set iff it was set just before the call and
\* its slot holds a non-null value; the bits of null slots are cleared.
C2_CompactKeepsNonNull ==
  CompactReturned =>
    /\ marker.bits \subseteq hist.preBits
    /\ \A i \in hist.preBits : i \in marker.bits <=> SlotValue(i) # NULL

\* C2 witness: compact cleared the bit of a slot that had been marked with a
\* non-null value and nulled afterwards, and kept another bit.
C2_Witness ==
  /\ CompactReturned
  /\ hist.preBits \ marker.bits # {}
  /\ marker.bits # {}

\* C3: after compact the length of the bitmap is the highest index of a
\* surviving bit plus one.
C3_CompactLength ==
  (CompactReturned /\ marker.bits # {}) => marker.size = MaxOf(marker.bits) + 1

\* C3 witness: two slots were marked and the higher one was nulled; compact
\* left the lower bit alone and shrank the bitmap to end right after it.
C3_Witness ==
  /\ CompactReturned
  /\ Cardinality(marker.bits) = 1
  /\ \E i \in hist.preBits : i > MaxOf(marker.bits)
  /\ marker.size < hist.preSize

\* C4: once compact has completed, every call of mark, clear or compact
\* aborts and the bitmap (bits, length, window) never changes.
C4_CompactFreezes ==
  [][marker.compacted =>
       /\ marker' = marker
       /\ lastOp'.op \in {"mark", "clear", "compact"}
            => (~lastOp'.ok /\ fatal' # NoFatal)]_vars

\* C4 witness: after compaction a clear_pointer call on the slot of a set bit
\* aborted.
C4_Witness ==
  /\ marker.compacted /\ lastOp.op = "clear" /\ ~lastOp.ok
  /\ fatal.kind = "assert_cannot_clear"
  /\ (lastOp.arg - marker.ptr_base) \div wordSize \in marker.bits

\* ------------------------------------------------------- region claims
AllocateReturned == lastOp.op = "allocate" /\ lastOp.ok
\* The cells holding a byte of [p, p + n).
CellsOf(p, n) == {c \in CellAddrs : c + CellSize > p /\ c < p + n}

\* C5: every successful allocate(n) returns an address that is a multiple of
\* the object alignment, and every byte of [p, p + n) is zero on return.
C5_AllocateAlignedAndZeroed ==
  AllocateReturned =>
    /\ lastOp.p % SharedSpaceObjectAlignment = 0
    /\ \A c \in CellsOf(lastOp.p, lastOp.arg) : mem[c] = 0

\* C5 witness: on the 4-byte build an allocate of MaxAlloc bytes returned from
\* a top an append had left unaligned, over memory that was not zero before.
C5_Witness ==
  /\ AllocateReturned /\ lastOp.arg = MaxAlloc /\ wordSize = 4
  /\ lastOp.p - 2 * CellSize \in CellAddrs
  /\ mem[lastOp.p - 2 * CellSize] = 1
  /\ mem[lastOp.p - CellSize] = Poison
  /\ mem[lastOp.newtop - CellSize] = 0

\* C6: a successful allocate returns an address at or above the end
\* (address + requested size) of every earlier allocation of the same region.
C6_AllocationsInCallOrder ==
  AllocateReturned => lastOp.p >= lastOp.prev

\* C6 witness: a second allocation of a region, with an appended word lying
\* between the end of the earlier allocation and the address returned.
C6_Witness ==
  /\ AllocateReturned /\ lastOp.arg > 0 /\ lastOp.prev > 0
  /\ \E c \in CellAddrs : lastOp.prev <= c /\ c < lastOp.p /\ mem[c] = 1

\* The step is a call of allocate or append_word on region r.
AllocCallOn(r) == lastOp'.op \in {"allocate", "append"} /\ lastOp'.region = r

\* C7: an allocate or append_word on an allocatable region whose new top
\* would exceed end aborts with the out-of-space report naming the region,
\* returns nothing, and leaves the cursors, the commit state and memory as
\* they were.
C7_PastEndFails ==
  [][\A r \in RegionNames :
       (AllocCallOn(r) /\ is_allocatable(region[r]) /\ lastOp'.newtop > region[r].end)
         => /\ fatal'.kind = "out_of_space" /\ fatal'.region = r
            /\ ~lastOp'.ok
            /\ region' = region /\ vs' = vs /\ mem' = mem]_vars

\* C7 witness: an append_word aborted with the report after the region had
\* been filled up to its end.
C7_Witness ==
  /\ fatal.kind = "out_of_space" /\ lastOp.op = "append"
  /\ region[fatal.region].top = region[fatal.region].end
  /\ vs[region[fatal.region].rs].high = region[fatal.region].end

\* C8 as claimed: the byte count reported is the shortfall newtop - end.
C8_ReportsShortfall ==
  fatal.kind = "out_of_space" => fatal.bytes = lastOp.newtop - region[fatal.region].end

\* C8 amended: the byte count reported is newtop - top, the bytes the call
\* needed above the current top (padding and rounding included).
C8_ReportsBytesNeeded ==
  fatal.kind = "out_of_space" => fatal.bytes = lastOp.newtop - region[fatal.region].top

\* C8 witness: the report of an allocate that had room left below end.
C8_Witness ==
  /\ fatal.kind = "out_of_space" /\ lastOp.op = "allocate"
  /\ region[fatal.region].top < region[fatal.region].end
  /\ fatal.bytes > lastOp.arg

\* C9: every initialized region has base <= top <= end, and end is at most
\* the limit of its reservation.
C9_CursorInvariant ==
  \A r \in RegionNames :
    region[r].base # NULL =>
      /\ region[r].base <= region[r].top
      /\ region[r].top <= region[r].end
      /\ region[r].end <= RsEnd(region[r].rs)

\* C9 witness: a region seeded by another region's pack, allocated from and
\* packed itself below the limit of the reservation.
C9_Witness ==
  /\ region["mc"].is_packed /\ region["rw"].is_packed
  /\ region["rw"].base = region["mc"].end
  /\ region["rw"].base < region["rw"].top
  /\ region["rw"].end < RsEnd(region["rw"].rs)

\* C10: once a region is packed, allocate, append_word and pack on it abort,
\* and no step changes its base, top or end.
C10_PackedIsImmutable ==
  [][\A r \in RegionNames :
       is_packed(region[r]) =>
         /\ region'[r] = region[r]
         /\ (lastOp'.op \in {"allocate", "append", "pack"} /\ lastOp'.region = r)
              => (~lastOp'.ok /\ fatal' # NoFatal)]_vars

\* C10 witness: an allocate that would have fitted between top and the
\* aligned end of a packed region aborted.
C10_Witness ==
  /\ lastOp.op = "allocate" /\ ~lastOp.ok /\ lastOp.arg > 0
  /\ region[lastOp.region].is_packed
  /\ region[lastOp.region].base # NULL
  /\ lastOp.newtop <= region[lastOp.region].end

\* The byte range [base, end) of a region.
RangeOf(r) == {a \in 0..127 : region[r].base <= a /\ a < region[r].end}

\* C11: a packed region ends at its top rounded up to the reservation
\* alignment; a region seeded by pack(next) starts (base, and top until it is
\* allocated from) exactly where the packed region ends, on the same
\* reservation, and ends at that reservation's limit until it is packed
\* itself; the ranges [base, end) of the two regions are disjoint.
C11_PackContiguous ==
  /\ \A r \in RegionNames :
       is_packed(region[r]) =>
         region[r].end = align_up(region[r].top, ReservedSpaceAlignment)
  /\ region["rw"].base # NULL =>
       /\ is_packed(region["mc"])
       /\ region["rw"].base = region["mc"].end
       /\ region["rw"].rs = region["mc"].rs
       /\ ~is_packed(region["rw"]) => region["rw"].end = RsEnd(region["mc"].rs)
       /\ RangeOf("mc") \cap RangeOf("rw") = {}
  /\ (lastOp.op = "pack" /\ lastOp.ok /\ region["rw"].base # NULL
        /\ lastOp.region = "mc")
       => region["rw"].top = region["mc"].end

\* C11 witness: mc was packed with a top that is not a multiple of the
\* reservation alignment, rw was placed after it and allocated from.
C11_Witness ==
  /\ is_packed(region["mc"])
  /\ region["mc"].top > region["mc"].base
  /\ ~is_aligned(region["mc"].top, ReservedSpaceAlignment)
  /\ region["rw"].base = region["mc"].end
  /\ region["rw"].top > region["rw"].base

\* ----------------------------------------------- WriteClosure claims
\* The WriteClosure has just written a field of kind k.
Wrote(k) == /\ lastOp.op = "write" /\ lastOp.ok /\ hist.wr # <<>>
            /\ hist.wr[Len(hist.wr)].kind = k
\* The field just written.
LastWritten == hist.wr[Len(hist.wr)]
\* The bitmap index of the word at address a.
SlotOf(a) == (a - marker.ptr_base) \div wordSize
\* The word at address a is registered in the bitmap.
SlotMarked(a) == marker.ptrmap_set /\ in_window(marker, a) /\ SlotOf(a) \in marker.bits

\* C12 as claimed: do_oop appends one word, zero and unmarked for a null
\* reference, the encoded value and marked (with the bitmap set up and the
\* word inside its window) for a non-null reference.
C12_ReferenceMarked ==
  Wrote("oop") =>
    /\ lastOp.newtop = lastOp.p + wordSize
    /\ region[dump_region].top = lastOp.newtop
    /\ LastWritten.v = NULL =>
         load_word(mem, lastOp.p) = 0 /\ ~SlotMarked(lastOp.p)
    /\ LastWritten.v # NULL =>
         /\ load_word(mem, lastOp.p) = encode_not_null(LastWritten.v)
         /\ (marker.ptrmap_set /\ ~marker.compacted /\ in_window(marker, lastOp.p))
              => SlotMarked(lastOp.p)

\* C12 amended: do_oop appends one word, zero for a null reference and the
\* encoded value for a non-null one; in neither case is the word's slot
\* marked in the bitmap.
C12_ReferenceUnmarked ==
  Wrote("oop") =>
    /\ lastOp.newtop = lastOp.p + wordSize
    /\ region[dump_region].top = lastOp.newtop
    /\ LastWritten.v = NULL => load_word(mem, lastOp.p) = 0
    /\ LastWritten.v # NULL => load_word(mem, lastOp.p) = encode_not_null(LastWritten.v)
    /\ ~SlotMarked(lastOp.p)

\* C12 witness: a non-null reference was written into the window of a bitmap
\* that is set up, not compacted and holds the bit of an earlier word.
C12_Witness ==
  /\ Wrote("oop") /\ LastWritten.v # NULL
  /\ load_word(mem, lastOp.p) # 0
  /\ marker.ptrmap_set /\ ~marker.compacted /\ in_window(marker, lastOp.p)
  /\ marker.bits # {}

\* The number of words written before the i-th field.
RECURSIVE WordsBefore(_)
WordsBefore(i) == IF i <= 1 THEN 0 ELSE WordsBefore(i - 1) + FieldWords(hist.wr[i - 1])
\* The address of the k-th word of the i-th field written (k = 0: its first).
WordAddr(i, k) == region[dump_region].base + (WordsBefore(i) + k) * wordSize
\* The addresses of the data words of the raw regions written.
DataWordAddrs ==
  {WordAddr(x[1], x[2]) : x \in
     {y \in (1..Len(hist.wr)) \X (1..(MaxRegionWords + 1)) :
        hist.wr[y[1]].kind = "region" /\ y[2] <= Len(hist.wr[y[1]].ws)}}

\* C13: do_region appends 1 + size / wordSize words, the tag word equal to
\* size and then the source words in order; after compaction the set bits are
\* exactly the slots of the data words inside the pointer window whose value
\* is non-null: none for a tag word, a null data word or any other field.
C13_RegionWordsMarked ==
  /\ Wrote("region") =>
       /\ lastOp.newtop = lastOp.p + (1 + LastWritten.v \div wordSize) * wordSize
       /\ region[dump_region].top = lastOp.newtop
       /\ load_word(mem, lastOp.p) = LastWritten.v
       /\ \A k \in 1..Len(LastWritten.ws) :
            load_word(mem, lastOp.p + k * wordSize) = LastWritten.ws[k]
  /\ CompactReturned =>
       marker.bits = {SlotOf(a) : a \in {d \in DataWordAddrs :
                                           in_window(marker, d) /\ load_word(mem, d) # NULL}}

\* C13 witness: after a scalar, a raw region of a non-null and a null word was
\* written; compaction left exactly the bit of the first data word.
C13_Witness ==
  /\ CompactReturned
  /\ Len(hist.wr) = 2 /\ hist.wr[1].kind = "u4" /\ hist.wr[1].v # 0
  /\ hist.wr[2].kind = "region" /\ Len(hist.wr[2].ws) = 2
  /\ hist.wr[2].ws[1] # NULL /\ hist.wr[2].ws[2] = NULL
  /\ marker.bits = {2} /\ marker.size = 3

\* ------------------------------------------------ ReadClosure claims
\* do_region has just returned, or aborted in do_tag.
RegionRead == lastOp.op = "read" /\ lastOp.ok /\ reader.last.kind = "region"
RegionReadAborted == lastOp.op = "read" /\ ~lastOp.ok /\ fatal.kind = "assert_tag_mismatch"
\* The read started at the tag word of the i-th field written, a raw region.
AtRegionWritten(i) == hist.wr[i].kind = "region" /\ lastOp.p = WordAddr(i, 0)

\* What C14 says of a do_region that returns or aborts, apart from the tag
\* comparison: read at a raw region as written, it returns only if the
\* length recorded equals size; on return it has consumed 1 + size / wordSize
\* words and stored the data words in order; an abort has consumed one word.
RegionReadShape ==
  /\ RegionRead =>
       /\ \A i \in 1..Len(hist.wr) : AtRegionWritten(i) => hist.wr[i].v = reader.last.v
       /\ lastOp.newtop = lastOp.p + (1 + reader.last.v \div wordSize) * wordSize
       /\ reader.pos = lastOp.newtop
       /\ Len(reader.last.ws) = reader.last.v \div wordSize
       /\ \A k \in 1..Len(reader.last.ws) :
            reader.last.ws[k] = load_word(mem, lastOp.p + k * wordSize)
  /\ RegionReadAborted => reader.pos = lastOp.p + wordSize

\* C14 as claimed: do_region (through do_tag) returns only if the word at the
\* cursor equals the size expected.
C14_TagWordChecked ==
  /\ RegionRead => load_word(mem, lastOp.p) = reader.last.v
  /\ RegionReadShape

\* C14 amended: do_region returns only if the word at the cursor, narrowed to
\* an int, equals the size expected, and aborts only if it differs.
C14_TagIntChecked ==
  /\ RegionRead => to_int(load_word(mem, lastOp.p)) = reader.last.v
  /\ RegionReadAborted => to_int(load_word(mem, lastOp.p)) # lastOp.arg
  /\ RegionReadShape

\* C14 witness: a raw region of two different words was read back in step
\* with the fields written.
C14_Witness ==
  /\ RegionRead /\ reader.count = 1 /\ reader.replay /\ reader.pos = region[dump_region].top
  /\ Len(reader.last.ws) = 2 /\ reader.last.ws[1] # reader.last.ws[2]

\* C14 witness of the abort: a do_region whose size is not the length recorded
\* has aborted at the tag of a raw region.
C14_AbortWitness ==
  /\ RegionReadAborted
  /\ \E i \in 1..Len(hist.wr) : AtRegionWritten(i) /\ hist.wr[i].v # lastOp.arg

\* The latest step was a call of do_oop / do_ptr.
OopRead == lastOp.op = "read" /\ reader.call = "oop"
PtrRead == lastOp.op = "read" /\ reader.call = "ptr"

\* C15 as claimed: do_oop on a destination that holds a non-null value aborts
\* and leaves the destination as it was.
C15_ReferenceWriteOnce ==
  (OopRead /\ reader.was # NULL) => (~lastOp.ok /\ reader.dest = reader.was)

\* C15 amended: do_ptr on a destination that holds a non-null value aborts
\* before it reads a word and leaves the destination as it was; do_oop makes
\* no such check: when it returns, the destination holds the reference read,
\* whatever it held before.
C15_PointerWriteOnce ==
  /\ (PtrRead /\ reader.was # NULL) =>
       /\ ~lastOp.ok /\ fatal.kind = "assert_previously_initialized"
       /\ reader.dest = reader.was
       /\ reader.pos = lastOp.p
  /\ (OopRead /\ lastOp.ok) =>
       reader.dest = read_oop_value(load_word(mem, lastOp.p))

\* C15 witness: do_ptr aborted on a destination that held a non-null value,
\* after a do_oop had stored null over one.
C15_Witness ==
  /\ PtrRead /\ reader.was # NULL /\ ~lastOp.ok
  /\ reader.last.kind = "oop" /\ reader.last.v = NULL

\* ------------------------------------------------ bitmap window claims
\* Address a lies outside [ptr_base, ptr_end).
OutsideWindow(a) == a < marker.ptr_base \/ a >= marker.ptr_end

\* C16: every set bit is the bit of a slot below ptr_end, and a mark_pointer
\* call on an address outside [ptr_base, ptr_end), made directly or by
\* append_intptr_t, returns and leaves the bits and the length as they were.
C16_NeverOutsideWindow ==
  [][/\ \A i \in marker'.bits : marker'.ptr_base + i * wordSize < marker'.ptr_end
     /\ (lastOp'.op = "mark" /\ OutsideWindow(lastOp'.arg)
           /\ marker.ptrmap_set /\ ~marker.compacted)
          => (lastOp'.ok /\ fatal' = NoFatal /\ marker' = marker)
     /\ (lastOp'.op = "append" /\ OutsideWindow(lastOp'.p)) => marker' = marker]_vars

\* C16 witness: a mark_pointer call on a slot at or above ptr_end that holds
\* a non-null value returned, with the bit of a slot inside the window set.
C16_Witness ==
  /\ lastOp.op = "mark" /\ lastOp.ok /\ marker.ptrmap_set
  /\ lastOp.arg >= marker.ptr_end
  /\ load_word(mem, lastOp.arg) # NULL
  /\ marker.bits # {}

\* C17, for a dump in which no slot is ever marked (SpecClear): every
\* clear_pointer call aborts; none returns as a silent no-op.
C17_ClearUnmarkedFails ==
  lastOp.op = "clear" => (~lastOp.ok /\ fatal # NoFatal)

\* C18: with the heap region not mapped, do_oop returns for every word,
\* archiving allowed or not, having consumed one word and stored null; and
\* no call ever fails the assertion that the heap region is mapped.
C18_UnmappedReadsNull ==
  /\ (OopRead /\ ~heap.mapped) =>
       /\ lastOp.ok /\ fatal = NoFatal
       /\ reader.dest = NULL
       /\ reader.pos = lastOp.p + wordSize
  /\ fatal.kind # "assert_heap_not_mapped"

\* C18 witness: with the heap region not mapped and archiving not allowed,
\* do_oop read a word that is not zero over a destination that was not null.
C18_Witness ==
  /\ OopRead /\ ~heap.mapped /\ ~heap.load_allowed
  /\ narrow_oop_cast(load_word(mem, lastOp.p)) # 0
  /\ reader.was # NULL /\ reader.dest = NULL

\* ------------------------------------------------ archive offset claims
\* The delta of address a from the reference address.
DeltaOf(a) == a - SharedBaseAddress
\* Region r is initialized on the primary reservation.
OnShared(r) == region[r].base # NULL /\ region[r].rs = shared_rs

\* What C19 says of the calls: on an allocatable region of the primary
\* reservation an allocate or append_word whose new top is within end but
\* has a delta above the maximum aborts and changes nothing; a new top
\* beyond end gets the out-of-space report whatever its delta; on a region of
\* another reservation the top advances whatever the delta.
DeltaChecked ==
  \A r \in RegionNames :
    (AllocCallOn(r) /\ is_allocatable(region[r])) =>
      /\ (region[r].rs = shared_rs /\ DeltaOf(lastOp'.newtop) > MAX_SHARED_DELTA)
           => (~lastOp'.ok /\ region' = region /\ vs' = vs /\ mem' = mem)
      /\ lastOp'.newtop > region[r].end => fatal'.kind = "out_of_space"
      /\ (region[r].rs # shared_rs /\ lastOp'.newtop <= region[r].end
           /\ lastOp'.newtop >= region[r].top
           /\ (lastOp'.op = "append" => is_aligned(region[r].top, wordSize)))
           => region'[r].top = lastOp'.newtop

\* C19 as claimed: the calls as above, and in every state the top of a region
\* of the primary reservation has a delta of at most the maximum.
C19_DeltaBounded ==
  [][/\ DeltaChecked
     /\ \A r \in RegionNames :
          OnShared(r)' => DeltaOf(region'[r].top) <= MAX_SHARED_DELTA]_vars

\* C19 amended: the calls as above, and in every state the top of a region
\* of the primary reservation has a delta of at most the maximum, unless the
\* region was seeded by pack and has not been allocated from: its top (its
\* base) is then a top within the maximum rounded up to the reservation
\* alignment.
C19_DeltaBoundedUnlessSeeded ==
  [][/\ DeltaChecked
     /\ \A r \in RegionNames :
          OnShared(r)' =>
            \/ DeltaOf(region'[r].top) <= MAX_SHARED_DELTA
            \/ /\ region'[r].top = region'[r].base
               /\ \E q \in RegionNames :
                    /\ is_packed(region'[q]) /\ region'[q].end = region'[r].base
                    /\ DeltaOf(region'[q].top) <= MAX_SHARED_DELTA]_vars

\* C19 witness: an allocate on a region of the primary reservation aborted on
\* the delta check with its new top within end.
C19_Witness ==
  /\ fatal.kind = "out_of_memory_cds" /\ lastOp.op = "allocate"
  /\ region[lastOp.region].rs = shared_rs
  /\ lastOp.newtop <= region[lastOp.region].end
  /\ DeltaOf(region[lastOp.region].top) <= MAX_SHARED_DELTA

\* C20: the compacted bitmap has at least one bit and at most as many as it
\* had before; when no bit survives it has length 1 and bit 0 is clear.
C20_CompactNeverEmpty ==
  CompactReturned =>
    /\ 1 <= marker.size /\ marker.size <= hist.preSize
    /\ marker.bits = {} => (marker.size = 1 /\ 0 \notin marker.bits)

\* C20 witness: bits were set, among them one above bit 0, every marked slot
\* was nulled, and compaction shrank the bitmap to one clear bit.
C20_Witness ==
  /\ CompactReturned /\ marker.bits = {}
  /\ \E i \in hist.preBits : i > 0
  /\ marker.size = 1 /\ hist.preSize > 1

====
